---- MODULE Spec2Model ----
(***************************************************************************)
(* Model of the useAnimatedGif hook of GlitchMixer: the React state of the *)
(* hook, its refs, the requestAnimationFrame queue and the loads in        *)
(* flight.  Frame indices are 0-based as in the source; TLA+ sequences are *)
(* 1-based, so frame i of the source is frames[i + 1].                     *)
(***************************************************************************)
EXTENDS Integers, Sequences, FiniteSets, TLC

(* ------------------------------ bounds -------------------------------- *)

\* largest value the time accumulator (frameTimeOffsetRef) may take
MaxCarry == 350
\* largest total elapsed time since play() that is tracked exactly
MaxTotal == 700
\* number of ticks since play() that is counted exactly
MaxTicks == 2
\* number of loadGif calls that may be awaiting their fetch at once
MaxInFlight == 2
\* longest patch list the decoder delivers in the compositing specification
MaxPatches == 3

\* elapsed times (timestamp - lastTimeRef.current) a tick may observe
Elapsed == {0, 100, 350}
\* the elapsed times of the playback specification
ElapsedPlayback == {0, 50, 100, 275, 350}

(* --------------------------- the environment -------------------------- *)

Urls == {"a.gif", "b.gif", "empty.gif", "bad.gif"}

\* a value the decoder left out (undefined in the source)
Undefined == -1

\* colour table of the k-th patch of a GIF: two colours of its own
ColorTable(k) == << <<k, 0, 0>>, <<k, 1, 0>> >>

\* a decoded patch as gifuct-js delivers it
Patch(k, w, h, left, top, pixels, transparentIndex, disposalType, delay) ==
  [dims |-> [width |-> w, height |-> h, left |-> left, top |-> top],
   pixels |-> pixels, transparentIndex |-> transparentIndex,
   colorTable |-> ColorTable(k), disposalType |-> disposalType,
   delay |-> delay]

\* the patch shapes of the compositing specification: a full opaque patch,
\* a full patch with transparent pixels, a one-pixel patch at an offset, and
\* a row without transparent index that uses an index outside its table
Shapes ==
  { [w |-> 2, h |-> 2, left |-> 0, top |-> 0, pixels |-> <<1, 1, 1, 1>>,
     transparentIndex |-> 0, delay |-> 0],
    [w |-> 2, h |-> 2, left |-> 0, top |-> 0, pixels |-> <<1, 0, 0, 1>>,
     transparentIndex |-> 0, delay |-> 50],
    [w |-> 1, h |-> 1, left |-> 1, top |-> 0, pixels |-> <<1>>,
     transparentIndex |-> 0, delay |-> Undefined],
    [w |-> 2, h |-> 1, left |-> 0, top |-> 1, pixels |-> <<0, 2>>,
     transparentIndex |-> Undefined, delay |-> 200] }

\* the disposal codes of the patches that have a successor (the last patch
\* of a list has code 0)
Disposals == {1, 2, 3}

\* the patch lists the decoder may deliver for "x.gif"
PatchLists ==
  UNION { { [k \in 1..n |->
              Patch(k, sh[k].w, sh[k].h, sh[k].left, sh[k].top, sh[k].pixels,
                    sh[k].transparentIndex, IF k < n THEN dt[k] ELSE 0,
                    sh[k].delay)] :
            sh \in [1..n -> Shapes], dt \in [1..(n - 1) -> Disposals] } :
          n \in 1..MaxPatches }

\* the patch list the decoder delivers for "x.gif"
VARIABLE decoded

\* what parseGIF / decompressFrames deliver for each url:
\* the list of patches, or a parse exception
Decode(url) ==
  CASE url = "a.gif" ->
         [ok |-> TRUE,
          patches |-> << Patch(1, 2, 1, 0, 0, <<0, 1>>, Undefined, 1, 100),
                         Patch(2, 1, 1, 1, 0, <<1>>, 0, 1, 200),
                         Patch(3, 2, 1, 0, 0, <<0, 1>>, 0, 0, 50) >>]
    [] url = "b.gif" ->
         [ok |-> TRUE,
          patches |-> << Patch(1, 1, 1, 0, 0, <<0>>, Undefined, 0, 0) >>]
    [] url = "x.gif" -> [ok |-> TRUE, patches |-> decoded]
    [] url = "empty.gif" -> [ok |-> TRUE, patches |-> << >>]
    [] OTHER -> [ok |-> FALSE, patches |-> << >>]

NoId == 0
Null == "null"

FetchError == "Failed to fetch GIF"
ParseError == "Failed to parse GIF format. Is this a valid GIF file?"

(* ------------------------------- state -------------------------------- *)

VARIABLES
  state,               \* the hook's React state (AnimatedGifState)
  rendered,            \* the state of the render whose callbacks are in use
  animationRef,        \* animationRef.current (NoId for null)
  frameTimeOffsetRef,  \* frameTimeOffsetRef.current
  rafQueue,            \* scheduled animation-frame callbacks: id -> closure
  inFlight,            \* loadGif calls awaiting fetch: url -> store at call
  mounted,             \* the component is mounted
  last,                \* the operation that ran last, its input and result
  quiet,               \* pause() or teardown ran and no play/reset/load since
  startIdx,            \* localFrameIndex at the last play()
  total,               \* elapsed time summed over the ticks since play()
  nTicks,              \* ticks since play(), counted up to MaxTicks + 1
  tempCanvas,          \* the canvas of tempCanvasRef.current
  comp,                \* the last compositing run: patches, disposed canvases
  target,              \* the canvas the caller hands to render and export
  job,                 \* the export in progress, its promise and encoder
  recorder,            \* the useGifRecorder hook: state, refs, interval, encoder
  latest               \* the url of the loadGif call made last ("" for none)

vars == <<state, rendered, animationRef, frameTimeOffsetRef, rafQueue,
          inFlight, mounted, last, quiet, startIdx, total, nTicks,
          decoded, tempCanvas, comp, target, job, recorder, latest>>

hist == <<startIdx, total, nTicks, latest>>

\* what the hook's playback and load operations leave alone
canvases == <<decoded, tempCanvas, comp, target, job, recorder>>

(* ------------------------------ canvases ------------------------------ *)

Transparent == <<0, 0, 0, 0>>

Opaque(rgb) == <<rgb[1], rgb[2], rgb[3], 255>>

\* a canvas or an ImageData: width, height and one RGBA pixel per position
BlankCanvas(w, h) ==
  [width |-> w, height |-> h,
   data |-> [p \in (0..(w - 1)) \X (0..(h - 1)) |-> Transparent]]

InBounds(img, x, y) ==
  x \in 0..(img.width - 1) /\ y \in 0..(img.height - 1)

\* document.createElement('canvas'): a blank canvas of the default size,
\* which is not the size of any GIF of the model
CreateCanvas == BlankCanvas(3, 1)

\* a canvas that never resets its bitmap when it is resized
SetCanvasSizeKeep(c, w, h) == c

\* canvas.width = w; canvas.height = h: the bitmap is reset
SetCanvasSize(c, w, h) == BlankCanvas(w, h)

\* ctx.clearRect(x, y, w, h)
ClearRect(c, x, y, w, h) ==
  [c EXCEPT !.data =
     [p \in DOMAIN c.data |->
        IF p[1] \in x..(x + w - 1) /\ p[2] \in y..(y + h - 1)
        THEN Transparent ELSE c.data[p]]]

\* ctx.getImageData(x, y, w, h): pixels outside the canvas are transparent
GetImageData(c, x, y, w, h) ==
  [width |-> w, height |-> h,
   data |-> [p \in (0..(w - 1)) \X (0..(h - 1)) |->
               IF InBounds(c, x + p[1], y + p[2])
               THEN c.data[<<x + p[1], y + p[2]>>] ELSE Transparent]]

\* ctx.putImageData(img, dx, dy): every pixel of img replaces the pixel
\* under it, whatever its alpha; what falls outside the canvas is dropped
PutImageData(c, img, dx, dy) ==
  [c EXCEPT !.data =
     [p \in DOMAIN c.data |->
        IF InBounds(img, p[1] - dx, p[2] - dy)
        THEN img.data[<<p[1] - dx, p[2] - dy>>] ELSE c.data[p]]]

\* a drawImage that copies the source pixels whatever their alpha
DrawImageCopy(c, src, dx, dy) == PutImageData(c, src, dx, dy)

\* ctx.drawImage(src, dx, dy) with the default source-over compositing:
\* alpha is 0 or 255, so an opaque source pixel replaces the pixel under it
\* and a transparent one leaves it
DrawImage(c, src, dx, dy) ==
  [c EXCEPT !.data =
     [p \in DOMAIN c.data |->
        IF /\ InBounds(src, p[1] - dx, p[2] - dy)
           /\ src.data[<<p[1] - dx, p[2] - dy>>][4] = 255
        THEN src.data[<<p[1] - dx, p[2] - dy>>] ELSE c.data[p]]]

InitialState ==
  [frames |-> << >>, width |-> 0, height |-> 0, currentFrameIndex |-> 0,
   isPlaying |-> FALSE, originalDelays |-> << >>, isLoading |-> FALSE,
   error |-> Null]

Op(op, e, url, ret, stage, cancelled) ==
  [op |-> op, e |-> e, url |-> url, ret |-> ret, stage |-> stage,
   cancelled |-> cancelled]

\* nothing was composited yet
NoComp == [patches |-> << >>, disposed |-> << >>]

\* maxFrames of the recording (50 in the editor), scaled down
RecMaxFrames == 8

\* useGifRecorder before any recording: its state, framesRef.current,
\* whether the capture interval is set, and the calls made to the encoder
NoRecorder ==
  [isRecording |-> FALSE, isProcessing |-> FALSE, frameCount |-> 0,
   error |-> Null, framesRef |-> 0, interval |-> FALSE, added |-> 0,
   renders |-> 0]

\* no export was started
NoJob ==
  [status |-> "none", frameCount |-> 0, frames |-> << >>,
   originalDelays |-> << >>, width |-> 0, height |-> 0, promise |-> "none",
   calls |-> << >>, failed |-> FALSE]

Init ==
  /\ state = InitialState
  /\ rendered = InitialState
  /\ animationRef = NoId
  /\ frameTimeOffsetRef = 0
  /\ rafQueue = << >>
  /\ inFlight = << >>
  /\ mounted = TRUE
  /\ last = Op("init", 0, "", "none", "none", FALSE)
  /\ quiet = FALSE
  /\ startIdx = 0
  /\ latest = ""
  /\ total = 0
  /\ nTicks = 0
  /\ decoded = << >>
  /\ recorder = NoRecorder
  /\ tempCanvas = CreateCanvas
  /\ comp = NoComp
  /\ target = CreateCanvas
  /\ job = NoJob

(* ------------------------------ helpers ------------------------------- *)

Restrict(f, S) == [x \in S |-> f[x]]

\* cancelAnimationFrame(id): the callback with this id will not run
CancelAnimationFrame(q, id) == Restrict(q, DOMAIN q \ {id})

\* requestAnimationFrame returns an id no pending callback has
NewId(q, ref) ==
  CHOOSE i \in 1..(Cardinality(DOMAIN q) + 2) :
    /\ i \notin DOMAIN q
    /\ i # ref
    /\ \A j \in 1..(i - 1) : j \in DOMAIN q \/ j = ref

RequestAnimationFrame(q, id, closure) ==
  [x \in DOMAIN q \cup {id} |-> IF x = id THEN closure ELSE q[x]]

\* the part of the state that makes up the frame store
Store(s) ==
  [frames |-> s.frames, width |-> s.width, height |-> s.height,
   originalDelays |-> s.originalDelays]

Min(a, b) == IF a < b THEN a ELSE b

(* ------------------------------ loadGif ------------------------------- *)

\* setState: React drops updates of an unmounted component
SetState(s) == IF mounted THEN s ELSE state

\* lines 98-111: parseGIF and decompressFrames inside their try block;
\* the result is "ok" or the message of the error that is rethrown
ParseGif(url) ==
  IF ~Decode(url).ok THEN ParseError
  ELSE IF Len(Decode(url).patches) = 0 THEN ParseError
  ELSE "ok"

\* a delay taken from the patch as it is
FrameDelayRaw(patch) == patch.delay

\* frame.delay || 100
FrameDelay(patch) ==
  IF patch.delay = 0 \/ patch.delay = Undefined THEN 100 ELSE patch.delay

\* previousImageData = null
NoImageData == [width |-> 0, height |-> 0, data |-> << >>]

\* colorTable[colorIndex] || [0, 0, 0]
ColorOf(frame, colorIndex) ==
  IF colorIndex + 1 \in DOMAIN frame.colorTable
  THEN frame.colorTable[colorIndex + 1]
  ELSE <<0, 0, 0>>

\* lines 166-185: the ImageData built from the patch; pixel j of the patch
\* is the pixel at row j \div width, column j % width
PatchImageData(frame) ==
  [width |-> frame.dims.width, height |-> frame.dims.height,
   data |-> [p \in (0..(frame.dims.width - 1)) \X (0..(frame.dims.height - 1)) |->
               LET j == p[2] * frame.dims.width + p[1]
               IN  IF j >= Len(frame.pixels) THEN Transparent
                   ELSE IF frame.pixels[j + 1] = frame.transparentIndex
                   THEN Transparent
                   ELSE Opaque(ColorOf(frame, frame.pixels[j + 1]))]]

\* lines 155-164: what is done to the canvas before patch i is drawn
\* (i counts from 1; patch i - 1 is the previous patch)
Dispose(i, frames, canvas, previousImageData, width, height) ==
  IF i > 1
  THEN IF frames[i - 1].disposalType = 2
       THEN ClearRect(canvas, 0, 0, width, height)
       ELSE IF previousImageData # NoImageData /\ frames[i - 1].disposalType # 3
       THEN PutImageData(canvas, previousImageData, 0, 0)
       ELSE canvas
  ELSE ClearRect(canvas, 0, 0, width, height)

\* the frame loop from patch i on: the frames and delays pushed so far, the
\* canvas as it was before each patch was drawn, and the canvas at the end
RECURSIVE FrameLoop(_, _, _, _, _, _)
FrameLoop(i, frames, canvas, patchCanvas, previousImageData, acc) ==
  IF i > Len(frames) THEN [acc EXCEPT !.canvas = canvas]
  ELSE LET frame == frames[i]
           width == frames[1].dims.width
           height == frames[1].dims.height
           disposed == Dispose(i, frames, canvas, previousImageData,
                               width, height)
           patch == PutImageData(patchCanvas, PatchImageData(frame), 0, 0)
           drawn == DrawImage(disposed, patch, frame.dims.left, frame.dims.top)
           imageData == GetImageData(drawn, 0, 0, width, height)
       IN  FrameLoop(i + 1, frames, drawn, patch, imageData,
             [frames |-> Append(acc.frames,
                           [imageData |-> imageData, delay |-> FrameDelay(frame)]),
              originalDelays |-> Append(acc.originalDelays, FrameDelay(frame)),
              disposed |-> Append(acc.disposed, disposed),
              canvas |-> drawn])

\* lines 114-204: the working canvas takes the size of the first patch, a
\* patch canvas of that size is created, and the frame loop runs
Composite(frames, canvas) ==
  LET width == frames[1].dims.width
      height == frames[1].dims.height
  IN  FrameLoop(1, frames, SetCanvasSize(canvas, width, height),
                BlankCanvas(width, height), NoImageData,
                [frames |-> << >>, originalDelays |-> << >>,
                 disposed |-> << >>, canvas |-> canvas])

\* the composited frames, one per patch, in patch order
ProcessFrames(url, canvas) == Composite(Decode(url).patches, canvas).frames

\* delays that are pushed only for patches that report a delay
OriginalDelaysTruthy(url, canvas) ==
  SelectSeq(Composite(Decode(url).patches, canvas).originalDelays,
            LAMBDA d : d # 100)

OriginalDelays(url, canvas) ==
  Composite(Decode(url).patches, canvas).originalDelays

\* the record of a compositing run: the patches and the canvas before each
\* patch was drawn
Trace(url, canvas) ==
  [patches |-> Decode(url).patches,
   disposed |-> Composite(Decode(url).patches, canvas).disposed]

\* the state installed by a load that went through
LoadedState(url, canvas) ==
  [frames |-> ProcessFrames(url, canvas),
   width |-> Decode(url).patches[1].dims.width,
   height |-> Decode(url).patches[1].dims.height,
   currentFrameIndex |-> 0,
   isPlaying |-> FALSE,
   originalDelays |-> OriginalDelays(url, canvas),
   isLoading |-> FALSE,
   error |-> Null]

\* a catch block that forgets to record the error
CatchStateSilent(s, msg) == [s EXCEPT !.isLoading = FALSE]

\* the catch block of loadGif
CatchState(s, msg) == [s EXCEPT !.isLoading = FALSE, !.error = msg]

\* loadGif(url) up to its first await
LoadGifCore(url) ==
  /\ mounted
  /\ url \notin DOMAIN inFlight
  /\ Cardinality(DOMAIN inFlight) < MaxInFlight
  /\ rafQueue' = IF animationRef # NoId
                 THEN CancelAnimationFrame(rafQueue, animationRef)
                 ELSE rafQueue
  /\ animationRef' = NoId
  /\ state' = SetState([state EXCEPT !.isLoading = TRUE, !.error = Null,
                                     !.frames = << >>, !.isPlaying = FALSE,
                                     !.currentFrameIndex = 0])
  /\ frameTimeOffsetRef' = 0
  /\ inFlight' = [u \in DOMAIN inFlight \cup {url} |->
                    IF u = url THEN Store(state) ELSE inFlight[u]]
  /\ last' = Op("loadGif", 0, url, "none", "none",
                animationRef \in DOMAIN rafQueue)
  /\ quiet' = FALSE
  /\ UNCHANGED <<rendered, mounted, canvases>>

LoadGif(url) == LoadGifCore(url) /\ UNCHANGED hist

\* the fetch came back and the GIF parsed: frames are composited and installed
LoadGifResolve(url) ==
  /\ mounted
  /\ rendered = state
  /\ url \in DOMAIN inFlight
  /\ ParseGif(url) = "ok"
  /\ state' = SetState(LoadedState(url, tempCanvas))
  /\ tempCanvas' = Composite(Decode(url).patches, tempCanvas).canvas
  /\ comp' = Trace(url, tempCanvas)
  /\ inFlight' = Restrict(inFlight, DOMAIN inFlight \ {url})
  /\ last' = Op("loadGifDone", 0, url, "true", "done", FALSE)
  /\ quiet' = FALSE
  /\ UNCHANGED <<rendered, animationRef, frameTimeOffsetRef, rafQueue,
                 mounted, hist, recorder, decoded, target, job>>

\* the fetch failed, or the bytes did not parse, or no frame was found
LoadGifReject(url) ==
  /\ mounted
  /\ rendered = state
  /\ url \in DOMAIN inFlight
  /\ \E stage \in {"fetch", "parse"} :
       /\ stage = "parse" => ParseGif(url) # "ok"
       /\ state' = SetState(CatchState(state,
                      IF stage = "fetch" THEN FetchError ELSE ParseGif(url)))
       /\ last' = Op("loadGifDone", 0, url, "false", stage, FALSE)
  /\ inFlight' = Restrict(inFlight, DOMAIN inFlight \ {url})
  /\ quiet' = FALSE
  /\ UNCHANGED <<rendered, animationRef, frameTimeOffsetRef, rafQueue,
                 mounted, hist, canvases>>

(* ------------------------- play / pause / reset ----------------------- *)

\* a play() that starts its loop without cancelling the one that runs
PlayCoreKeepsLoop ==
  /\ mounted
  /\ IF Len(rendered.frames) = 0 \/ rendered.isPlaying
     THEN /\ last' = Op("play", 0, "", "none", "none", FALSE)
          /\ UNCHANGED <<state, animationRef, frameTimeOffsetRef, rafQueue>>
     ELSE LET id == NewId(rafQueue, animationRef)
          IN  /\ state' = SetState([state EXCEPT !.isPlaying = TRUE])
              /\ frameTimeOffsetRef' = 0
              /\ rafQueue' = RequestAnimationFrame(rafQueue, id,
                               [frames |-> rendered.frames,
                                localFrameIndex |-> rendered.currentFrameIndex])
              /\ animationRef' = id
              /\ last' = Op("play", 0, "", "true", "none",
                            animationRef \in DOMAIN rafQueue)
  /\ quiet' = FALSE
  /\ UNCHANGED <<rendered, inFlight, mounted, canvases>>

\* play(): its guard and the frames and index it hands to animate are those
\* of the render the callback was created in
PlayCore ==
  /\ mounted
  /\ IF Len(rendered.frames) = 0 \/ rendered.isPlaying
     THEN /\ last' = Op("play", 0, "", "none", "none", FALSE)
          /\ UNCHANGED <<state, animationRef, frameTimeOffsetRef, rafQueue>>
     ELSE LET q1 == IF animationRef # NoId
                    THEN CancelAnimationFrame(rafQueue, animationRef)
                    ELSE rafQueue
              id == NewId(q1, animationRef)
          IN  /\ state' = SetState([state EXCEPT !.isPlaying = TRUE])
              /\ frameTimeOffsetRef' = 0
              /\ rafQueue' = RequestAnimationFrame(q1, id,
                               [frames |-> rendered.frames,
                                localFrameIndex |-> rendered.currentFrameIndex])
              /\ animationRef' = id
              /\ last' = Op("play", 0, "", "true", "none",
                            animationRef \in DOMAIN rafQueue)
  /\ quiet' = FALSE
  /\ UNCHANGED <<rendered, inFlight, mounted, canvases>>

Play == PlayCore /\ UNCHANGED hist

\* the animation-frame callback animate(timestamp) of the closure `id`,
\* with elapsed = timestamp - lastTimeRef.current
AnimateCore(id, elapsed) ==
  /\ id \in DOMAIN rafQueue
  /\ mounted => rendered = state
  /\ LET cb == rafQueue[id]
         q1 == CancelAnimationFrame(rafQueue, id)
     IN  IF animationRef = NoId
         THEN \* return early if we stopped playing
              /\ rafQueue' = q1
              /\ last' = Op("tick", elapsed, "", "none", "none", FALSE)
              /\ UNCHANGED <<state, animationRef, frameTimeOffsetRef>>
         ELSE IF cb.localFrameIndex >= Len(cb.frames)
         THEN \* currentFrame is undefined: reading its delay throws, after
              \* the elapsed time was added; nothing is scheduled again
              /\ frameTimeOffsetRef + elapsed <= MaxCarry
              /\ frameTimeOffsetRef' = frameTimeOffsetRef + elapsed
              /\ rafQueue' = q1
              /\ last' = Op("tick", elapsed, "", "throw", "none", FALSE)
              /\ UNCHANGED <<state, animationRef>>
         ELSE LET offset == frameTimeOffsetRef + elapsed
                  currentFrame == cb.frames[cb.localFrameIndex + 1]
                  advance == offset >= currentFrame.delay
                  localFrameIndex ==
                    IF advance
                    THEN (cb.localFrameIndex + 1) % Len(cb.frames)
                    ELSE cb.localFrameIndex
                  nid == NewId(q1, NoId)
              IN  /\ offset <= MaxCarry
                  /\ frameTimeOffsetRef' =
                       IF advance THEN offset - currentFrame.delay ELSE offset
                  /\ state' = IF advance
                              THEN SetState([state EXCEPT
                                     !.currentFrameIndex = localFrameIndex])
                              ELSE state
                  /\ rafQueue' = RequestAnimationFrame(q1, nid,
                                   [cb EXCEPT !.localFrameIndex = localFrameIndex])
                  /\ animationRef' = nid
                  /\ last' = Op("tick", elapsed, "", "true", "none", FALSE)
  /\ UNCHANGED <<rendered, inFlight, mounted, quiet, canvases>>

Animate(id, elapsed) == AnimateCore(id, elapsed) /\ UNCHANGED hist

\* a pause() that only clears the flag and leaves the callback scheduled
PauseKeepsTick ==
  /\ mounted
  /\ state' = SetState([state EXCEPT !.isPlaying = FALSE])
  /\ last' = Op("pause", 0, "", "none", "none", FALSE)
  /\ quiet' = TRUE
  /\ UNCHANGED <<rendered, animationRef, frameTimeOffsetRef, rafQueue,
                 inFlight, mounted, hist, canvases>>

\* pause()
Pause ==
  /\ mounted
  /\ rafQueue' = IF animationRef # NoId
                 THEN CancelAnimationFrame(rafQueue, animationRef)
                 ELSE rafQueue
  /\ animationRef' = NoId
  /\ state' = SetState([state EXCEPT !.isPlaying = FALSE])
  /\ last' = Op("pause", 0, "", "none", "none", animationRef \in DOMAIN rafQueue)
  /\ quiet' = TRUE
  /\ UNCHANGED <<rendered, frameTimeOffsetRef, inFlight, mounted, hist,
                 canvases>>

\* a reset() that forgets to cancel the scheduled callback
ResetKeepsTick ==
  /\ mounted
  /\ state' = SetState([state EXCEPT !.currentFrameIndex = 0,
                                     !.isPlaying = FALSE])
  /\ last' = Op("reset", 0, "", "none", "none", FALSE)
  /\ quiet' = FALSE
  /\ UNCHANGED <<rendered, animationRef, frameTimeOffsetRef, rafQueue,
                 inFlight, mounted, hist, canvases>>

\* reset()
Reset ==
  /\ mounted
  /\ rafQueue' = IF animationRef # NoId
                 THEN CancelAnimationFrame(rafQueue, animationRef)
                 ELSE rafQueue
  /\ animationRef' = NoId
  /\ state' = SetState([state EXCEPT !.currentFrameIndex = 0,
                                     !.isPlaying = FALSE])
  /\ last' = Op("reset", 0, "", "none", "none", animationRef \in DOMAIN rafQueue)
  /\ quiet' = FALSE
  /\ UNCHANGED <<rendered, frameTimeOffsetRef, inFlight, mounted, hist,
                 canvases>>

\* React renders the component again: the callbacks are recreated over the
\* current state.  React commits the pending updates before the next task,
\* so animation frames and fetch completions find rendered = state; calls
\* made back to back in one task run on the render that preceded them.
Render ==
  /\ mounted
  /\ rendered # state
  /\ rendered' = state
  /\ UNCHANGED <<state, animationRef, frameTimeOffsetRef, rafQueue, inFlight,
                 mounted, last, quiet, hist, canvases>>

\* the cleanup of the mount effect
Unmount ==
  /\ mounted
  /\ mounted' = FALSE
  /\ rafQueue' = IF animationRef # NoId
                 THEN CancelAnimationFrame(rafQueue, animationRef)
                 ELSE rafQueue
  /\ last' = Op("unmount", 0, "", "none", "none", animationRef \in DOMAIN rafQueue)
  /\ quiet' = TRUE
  /\ UNCHANGED <<state, rendered, animationRef, frameTimeOffsetRef, inFlight,
                 hist, canvases>>

Next ==
  \/ \E url \in Urls : LoadGif(url)
  \/ \E url \in Urls : LoadGifResolve(url)
  \/ \E url \in Urls : LoadGifReject(url)
  \/ Play
  \/ \E id \in DOMAIN rafQueue : \E elapsed \in Elapsed : Animate(id, elapsed)
  \/ Pause
  \/ Reset
  \/ Render
  \/ Unmount

Spec == Init /\ [][Next]_vars

(* ------------------- the overlapping-loads specification -------------- *)

\* loadGif(url), remembered as the call made last
LatestLoadGif(url) ==
  /\ LoadGifCore(url)
  /\ latest' = url
  /\ UNCHANGED <<startIdx, total, nTicks>>

NextLoads ==
  \/ \E url \in Urls : LatestLoadGif(url)
  \/ \E url \in Urls : LoadGifResolve(url)
  \/ \E url \in Urls : LoadGifReject(url)
  \/ Render

SpecLoads == Init /\ [][NextLoads]_vars

(* --------------------- the playback specification --------------------- *)

\* play() with the tick history started afresh
TimedPlay ==
  /\ PlayCore
  /\ IF last'.ret = "true"
     THEN /\ startIdx' = rendered.currentFrameIndex
          /\ total' = 0
          /\ nTicks' = 0
          /\ UNCHANGED latest
     ELSE UNCHANGED hist

\* animate with the elapsed time added to the tick history
TimedAnimate(id, elapsed) ==
  /\ AnimateCore(id, elapsed)
  /\ IF last'.ret = "true"
     THEN /\ total' = Min(total + elapsed, MaxTotal + 1)
          /\ nTicks' = Min(nTicks + 1, MaxTicks + 1)
          /\ UNCHANGED <<startIdx, latest>>
     ELSE UNCHANGED hist

\* a GIF was loaded, rendered and play() was called on it
InitPlayback ==
  \E url \in {"a.gif", "b.gif"} :
    /\ state = [LoadedState(url, CreateCanvas) EXCEPT !.isPlaying = TRUE]
    /\ rendered = state
    /\ animationRef = 1
    /\ frameTimeOffsetRef = 0
    /\ rafQueue = RequestAnimationFrame(<< >>, 1,
                    [frames |-> state.frames, localFrameIndex |-> 0])
    /\ inFlight = << >>
    /\ mounted = TRUE
    /\ last = Op("play", 0, "", "true", "none", FALSE)
    /\ quiet = FALSE
    /\ startIdx = 0
    /\ latest = ""
    /\ total = 0
    /\ nTicks = 0
    /\ decoded = << >>
    /\ recorder = NoRecorder
    /\ tempCanvas = Composite(Decode(url).patches, CreateCanvas).canvas
    /\ comp = Trace(url, CreateCanvas)
    /\ target = CreateCanvas
    /\ job = NoJob

NextPlayback ==
  \/ TimedPlay
  \/ \E id \in DOMAIN rafQueue :
       \E elapsed \in ElapsedPlayback : TimedAnimate(id, elapsed)
  \/ Pause
  \/ Reset
  \/ Render

SpecPlayback == InitPlayback /\ [][NextPlayback]_vars

(* ------------------------ renderToCanvas / generateGif ---------------- *)

\* the transform the caller passes as applyEffects: it changes the canvas in
\* place; here it inverts the colour of every pixel
ApplyEffects(c) ==
  [c EXCEPT !.data =
     [p \in DOMAIN c.data |->
        <<255 - c.data[p][1], 255 - c.data[p][2], 255 - c.data[p][3],
          c.data[p][4]>>]]

\* lines 248-251 and 371-374: the canvas is resized when its size differs
EnsureSize(c, w, h) ==
  IF c.width # w \/ c.height # h THEN SetCanvasSize(c, w, h) ELSE c

\* a renderToCanvas that sizes the canvas before it looks at the frames
RenderToCanvasSizesFirst(fx, outcome) ==
  /\ mounted
  /\ target' = EnsureSize(target, rendered.width, rendered.height)
  /\ last' = Op("renderToCanvas", 0, "", "false", "none", FALSE)
  /\ UNCHANGED <<state, rendered, animationRef, frameTimeOffsetRef, rafQueue,
                 inFlight, mounted, quiet, hist, recorder, decoded, tempCanvas, comp,
                 job>>

\* a renderToCanvas whose transform works on the frame's own pixel data
RenderToCanvasInPlace(fx, outcome) ==
  /\ mounted
  /\ fx = "absent" => outcome = "ok"
  /\ Len(rendered.frames) > 0
  /\ rendered.currentFrameIndex < Len(rendered.frames)
  /\ state' = [state EXCEPT !.frames =
                 [i \in DOMAIN state.frames |->
                    [state.frames[i] EXCEPT
                       !.imageData = ApplyEffects(state.frames[i].imageData)]]]
  /\ last' = Op("renderToCanvas", 0, "", "true", "effects", FALSE)
  /\ UNCHANGED <<rendered, animationRef, frameTimeOffsetRef, rafQueue,
                 inFlight, mounted, quiet, hist, recorder, decoded, tempCanvas, comp,
                 job, target>>

\* renderToCanvas(canvas, applyEffects) on the caller's canvas; applyEffects
\* is absent or present, and when present it returns or throws
RenderToCanvas(fx, outcome) ==
  /\ mounted
  /\ fx = "absent" => outcome = "ok"
  /\ IF Len(rendered.frames) = 0
        \/ rendered.currentFrameIndex >= Len(rendered.frames)
     THEN /\ last' = Op("renderToCanvas", 0, "", "false", "none", FALSE)
          /\ UNCHANGED target
     ELSE LET sized == EnsureSize(target, rendered.width, rendered.height)
              currentFrame == rendered.frames[rendered.currentFrameIndex + 1]
              drawn == PutImageData(sized, currentFrame.imageData, 0, 0)
          IN  /\ target' = IF fx = "absent" \/ outcome = "throw" THEN drawn
                           ELSE ApplyEffects(drawn)
              /\ last' = Op("renderToCanvas", 0, "",
                            IF outcome = "throw" THEN "false" ELSE "true",
                            IF fx = "absent" THEN "none" ELSE "effects", FALSE)
  /\ UNCHANGED <<state, rendered, animationRef, frameTimeOffsetRef, rafQueue,
                 inFlight, mounted, quiet, hist, recorder, decoded, tempCanvas, comp,
                 job>>

\* a generateGif without the test for an empty frame list: the encoder is
\* started on no frames
GenerateGifUnguarded ==
  /\ mounted
  /\ job.status \in {"none", "done"}
  /\ job' = [NoJob EXCEPT !.status = "rendering", !.promise = "pending",
                          !.calls = << [op |-> "render"] >>]
  /\ last' = Op("generateGif", 0, "", "none", "none", FALSE)
  /\ UNCHANGED <<state, rendered, animationRef, frameTimeOffsetRef, rafQueue,
                 inFlight, mounted, quiet, hist, recorder, decoded, tempCanvas, comp,
                 target>>

\* generateGif(canvas, applyEffects): the promise executor up to import();
\* the frames, delays and size are those of the render the callback is of
GenerateGif ==
  /\ mounted
  /\ job.status \in {"none", "done"}
  /\ job' = IF Len(rendered.frames) = 0
            THEN [NoJob EXCEPT !.status = "done", !.promise = "rejected"]
            ELSE [NoJob EXCEPT !.status = "importing",
                               !.frames = rendered.frames,
                               !.originalDelays = rendered.originalDelays,
                               !.width = rendered.width,
                               !.height = rendered.height,
                               !.promise = "pending"]
  /\ last' = Op("generateGif", 0, "", "none", "none", FALSE)
  /\ UNCHANGED <<state, rendered, animationRef, frameTimeOffsetRef, rafQueue,
                 inFlight, mounted, quiet, hist, recorder, decoded, tempCanvas, comp,
                 target>>

\* lines 402-416: frame j.frameCount is put on the canvas, the effects are
\* applied and the canvas is handed to the encoder, which copies it; the
\* effects or addFrame may throw.  Gives the canvas and the job afterwards.
FrameStep(j, canvas, outcome) ==
  LET drawn == PutImageData(canvas, j.frames[j.frameCount + 1].imageData, 0, 0)
      done  == ApplyEffects(drawn)
      call  == [op |-> "addFrame", image |-> done,
                delay |-> j.originalDelays[j.frameCount + 1]]
  IN  CASE outcome = "throwEffects" ->
             [canvas |-> drawn, job |-> [j EXCEPT !.failed = TRUE]]
        [] outcome = "throwAddFrame" ->
             [canvas |-> done,
              job |-> [j EXCEPT !.failed = TRUE, !.calls = Append(@, call)]]
        [] OTHER ->
             [canvas |-> done,
              job |-> [j EXCEPT !.calls = Append(@, call),
                                !.frameCount = @ + 1,
                                !.status = "running"]]

\* the promise chain of import('gif.js'): the import fails, or its then
\* callback sizes the canvas and runs processNextFrame for frame 0; whatever
\* is thrown there reaches the catch at lines 421-423
ImportDone(outcome) ==
  /\ job.status = "importing"
  /\ IF outcome = "importFails"
     THEN /\ job' = [job EXCEPT !.status = "done", !.promise = "rejected",
                                !.failed = TRUE]
          /\ UNCHANGED target
     ELSE LET sized == EnsureSize(target, job.width, job.height)
              step  == FrameStep(job, sized, outcome)
          IN  /\ target' = step.canvas
              /\ job' = IF step.job.failed
                        THEN [step.job EXCEPT !.status = "done",
                                              !.promise = "rejected"]
                        ELSE step.job
  /\ last' = Op("importDone", 0, "",
                IF outcome = "ok" THEN "true" ELSE "throw", "none", FALSE)
  /\ UNCHANGED <<state, rendered, animationRef, frameTimeOffsetRef, rafQueue,
                 inFlight, mounted, quiet, hist, recorder, decoded, tempCanvas, comp>>

\* a processNextFrame that goes on to the next frame without a timer
ProcessNextFrameTwice(outcome) ==
  /\ job.status = "running"
  /\ outcome = "ok"
  /\ job.frameCount + 1 < Len(job.frames)
  /\ LET one == FrameStep(job, target, outcome)
         two == FrameStep(one.job, one.canvas, outcome)
     IN  /\ target' = two.canvas
         /\ job' = two.job
  /\ last' = Op("processNextFrame", 0, "", "true", "none", FALSE)
  /\ UNCHANGED <<state, rendered, animationRef, frameTimeOffsetRef, rafQueue,
                 inFlight, mounted, quiet, hist, recorder, decoded, tempCanvas, comp>>

\* processNextFrame as a timer callback: the next frame, or gif.render()
\* once every frame was added.  What a frame step throws is thrown out of
\* the timer callback: no further timer is set and nothing settles the
\* promise; what gif.render() throws is caught and rejects it.
ProcessNextFrame(outcome) ==
  /\ job.status = "running"
  /\ IF job.frameCount >= Len(job.frames)
     THEN /\ outcome \in {"ok", "throwRender"}
          /\ job' = IF outcome = "ok"
                    THEN [job EXCEPT !.status = "rendering",
                                     !.calls = Append(@, [op |-> "render"])]
                    ELSE [job EXCEPT !.status = "done", !.failed = TRUE,
                                     !.promise = "rejected",
                                     !.calls = Append(@, [op |-> "render"])]
          /\ UNCHANGED target
     ELSE /\ outcome \in {"ok", "throwEffects", "throwAddFrame"}
          /\ LET step == FrameStep(job, target, outcome)
             IN  /\ target' = step.canvas
                 /\ job' = IF step.job.failed
                           THEN [step.job EXCEPT !.status = "done"]
                           ELSE step.job
  /\ last' = Op("processNextFrame", 0, "",
                IF outcome = "ok" THEN "true" ELSE "throw", "none", FALSE)
  /\ UNCHANGED <<state, rendered, animationRef, frameTimeOffsetRef, rafQueue,
                 inFlight, mounted, quiet, hist, recorder, decoded, tempCanvas, comp>>

\* the encoder emits 'finished' and the handler resolves the promise
Finished ==
  /\ job.status = "rendering"
  /\ job' = [job EXCEPT !.status = "done", !.promise = "resolved"]
  /\ last' = Op("finished", 0, "", "true", "none", FALSE)
  /\ UNCHANGED <<state, rendered, animationRef, frameTimeOffsetRef, rafQueue,
                 inFlight, mounted, quiet, hist, recorder, decoded, tempCanvas, comp,
                 target>>

(* ----------------------- the export specification --------------------- *)

ExportUrls == {"a.gif", "b.gif"}

NextExport ==
  \/ \E url \in ExportUrls : LoadGif(url)
  \/ \E url \in ExportUrls : LoadGifResolve(url)
  \/ \E url \in ExportUrls : LoadGifReject(url)
  \/ Render
  \/ \E fx \in {"absent", "invert"} :
       \E outcome \in {"ok", "throw"} : RenderToCanvas(fx, outcome)
  \/ GenerateGif
  \/ \E outcome \in {"ok", "importFails", "throwEffects", "throwAddFrame"} :
       ImportDone(outcome)
  \/ \E outcome \in {"ok", "throwEffects", "throwAddFrame", "throwRender"} :
       ProcessNextFrame(outcome)
  \/ Finished

SpecExport == Init /\ [][NextExport]_vars

(* ----------------- export beside playback and preview --------------- *)

\* elapsed times of the ticks that run beside an export
ElapsedExport == {0, 100}

\* "a.gif" was loaded and rendered
InitLoaded ==
  /\ state = LoadedState("a.gif", CreateCanvas)
  /\ rendered = state
  /\ animationRef = NoId
  /\ frameTimeOffsetRef = 0
  /\ rafQueue = << >>
  /\ inFlight = << >>
  /\ mounted = TRUE
  /\ last = Op("loadGifDone", 0, "a.gif", "true", "done", FALSE)
  /\ quiet = FALSE
  /\ startIdx = 0
  /\ latest = ""
  /\ total = 0
  /\ nTicks = 0
  /\ decoded = << >>
  /\ recorder = NoRecorder
  /\ tempCanvas = Composite(Decode("a.gif").patches, CreateCanvas).canvas
  /\ comp = Trace("a.gif", CreateCanvas)
  /\ target = CreateCanvas
  /\ job = NoJob

\* playback, the live preview and an export of the loaded GIF, all on the
\* caller's one canvas
NextBeside ==
  \/ Play
  \/ \E id \in DOMAIN rafQueue :
       \E elapsed \in ElapsedExport : Animate(id, elapsed)
  \/ Pause
  \/ Reset
  \/ Render
  \/ \E fx \in {"absent", "invert"} :
       \E outcome \in {"ok", "throw"} : RenderToCanvas(fx, outcome)
  \/ GenerateGif
  \/ \E outcome \in {"ok", "importFails", "throwEffects", "throwAddFrame"} :
       ImportDone(outcome)
  \/ \E outcome \in {"ok", "throwEffects", "throwAddFrame", "throwRender"} :
       ProcessNextFrame(outcome)
  \/ Finished

SpecBeside == InitLoaded /\ [][NextBeside]_vars

(* ------------------- every operation of the hook --------------------- *)

\* loads of one GIF, playback, renders with a transform and exports that
\* go through, in any order
NextAll ==
  \/ LoadGif("a.gif")
  \/ LoadGifResolve("a.gif")
  \/ LoadGifReject("a.gif")
  \/ Render
  \/ Play
  \/ \E id \in DOMAIN rafQueue : Animate(id, 100)
  \/ Pause
  \/ Reset
  \/ RenderToCanvas("invert", "ok")
  \/ GenerateGif
  \/ ImportDone("ok")
  \/ ProcessNextFrame("ok")
  \/ Finished

SpecAll == Init /\ [][NextAll]_vars

(* ------------------ the export under fair scheduling ----------------- *)

\* the callbacks of an export that the event loop has to run: the promise
\* chain of import(), the timer of processNextFrame, the encoder's event
ExportCallbacks ==
  \/ \E outcome \in {"ok", "importFails", "throwEffects", "throwAddFrame"} :
       ImportDone(outcome)
  \/ \E outcome \in {"ok", "throwEffects", "throwAddFrame", "throwRender"} :
       ProcessNextFrame(outcome)
  \/ Finished

NextSettle ==
  \/ \E url \in ExportUrls : LoadGif(url)
  \/ \E url \in ExportUrls : LoadGifResolve(url)
  \/ \E url \in ExportUrls : LoadGifReject(url)
  \/ Render
  \/ GenerateGif
  \/ ExportCallbacks

\* every pending callback of the export is run in the end
SpecSettle == Init /\ [][NextSettle]_vars /\ WF_vars(ExportCallbacks)

(* ---------------------------- useGifRecorder -------------------------- *)

\* what the recorder leaves alone
hook == <<state, rendered, animationRef, frameTimeOffsetRef, rafQueue,
          inFlight, mounted, quiet, hist, decoded, tempCanvas, comp, target,
          job>>

\* the stopRecording that the user calls: the callback of the current
\* render, whose recorderState.isRecording is the present one
StopRecordingFresh(r, outcome) ==
  IF ~r.isRecording THEN r
  ELSE IF r.framesRef > 0
  THEN IF outcome = "throw"
       THEN [r EXCEPT !.interval = FALSE, !.isRecording = FALSE,
                      !.isProcessing = FALSE, !.renders = @ + 1,
                      !.error = "Failed to render GIF"]
       ELSE [r EXCEPT !.interval = FALSE, !.isRecording = FALSE,
                      !.isProcessing = TRUE, !.renders = @ + 1]
  ELSE [r EXCEPT !.interval = FALSE, !.isRecording = FALSE,
                 !.isProcessing = FALSE, !.error = "No frames captured"]

\* the stopRecording that the interval callback calls: the callback of the
\* render startRecording was created in.  startRecording got past its own
\* test of recorderState.isRecording, and stopRecording is memoized on the
\* same value, so the test at lines 131-134 finds isRecording false and
\* stopRecording returns at once
StopRecordingStale(r, outcome) == r

\* startRecording(canvas, options) called from the current render
StartRecording ==
  /\ recorder' = IF recorder.isRecording THEN recorder
                 ELSE [NoRecorder EXCEPT !.isRecording = TRUE,
                                         !.interval = TRUE]
  /\ last' = Op("startRecording", 0, "",
                IF recorder.isRecording THEN "none" ELSE "true", "none", FALSE)
  /\ UNCHANGED hook

\* the callback of the capture interval: addFrame returns or throws
CaptureTick(outcome) ==
  /\ recorder.interval
  /\ IF recorder.framesRef >= RecMaxFrames
     THEN /\ outcome = "ok"
          /\ recorder' = StopRecordingStale(recorder, outcome)
          /\ last' = Op("capture", 0, "", "full", "none", FALSE)
     ELSE IF outcome = "throw"
     THEN /\ recorder' = [StopRecordingStale(recorder, "ok") EXCEPT
                            !.error = "Error capturing frame"]
          /\ last' = Op("capture", 0, "", "throw", "none", FALSE)
     ELSE /\ recorder' = [recorder EXCEPT !.added = @ + 1,
                                          !.framesRef = @ + 1,
                                          !.frameCount = recorder.framesRef + 1]
          /\ last' = Op("capture", 0, "", "true", "none", FALSE)
  /\ UNCHANGED hook

\* the user stops the recording; gif.render() returns or throws
StopRecording(outcome) ==
  /\ recorder' = StopRecordingFresh(recorder, outcome)
  /\ outcome = "throw" => recorder.isRecording /\ recorder.framesRef > 0
  /\ last' = Op("stopRecording", 0, "",
                IF recorder.isRecording THEN "true" ELSE "none", "none", FALSE)
  /\ UNCHANGED hook

\* cancelRecording()
CancelRecording ==
  /\ recorder' = [recorder EXCEPT !.interval = FALSE, !.isRecording = FALSE,
                                  !.isProcessing = FALSE, !.frameCount = 0,
                                  !.error = Null]
  /\ last' = Op("cancelRecording", 0, "", "none", "none", FALSE)
  /\ UNCHANGED hook

\* the encoder emits 'finished': the file is downloaded and the state reset
RecordingFinished ==
  /\ recorder.isProcessing
  /\ recorder' = [recorder EXCEPT !.isRecording = FALSE,
                                  !.isProcessing = FALSE, !.frameCount = 0,
                                  !.error = Null]
  /\ last' = Op("recordingFinished", 0, "", "true", "none", FALSE)
  /\ UNCHANGED hook

NextRecorder ==
  \/ StartRecording
  \/ \E outcome \in {"ok", "throw"} : CaptureTick(outcome)
  \/ \E outcome \in {"ok", "throw"} : StopRecording(outcome)
  \/ CancelRecording
  \/ RecordingFinished

SpecRecorder == Init /\ [][NextRecorder]_vars

(* ----------------------- the render specification --------------------- *)

\* loads, playback and renders of the caller's canvas
NextRender ==
  \/ \E url \in ExportUrls : LoadGif(url)
  \/ \E url \in ExportUrls : LoadGifResolve(url)
  \/ \E url \in ExportUrls : LoadGifReject(url)
  \/ Render
  \/ Play
  \/ \E id \in DOMAIN rafQueue : Animate(id, 100)
  \/ Pause
  \/ \E fx \in {"absent", "invert"} :
       \E outcome \in {"ok", "throw"} : RenderToCanvas(fx, outcome)

SpecRender == Init /\ [][NextRender]_vars

(* -------------------- the compositing specification ------------------ *)

\* the decoder will deliver one of the patch lists for "x.gif"; the hook is
\* fresh, or has loaded and rendered "a.gif" before, so that the working
\* canvas holds the last frame of that load
InitCompose ==
  /\ decoded \in PatchLists
  /\ recorder = NoRecorder
  /\ \E prior \in {"none", "a.gif"} :
       IF prior = "none"
       THEN /\ state = InitialState
            /\ tempCanvas = CreateCanvas
            /\ comp = NoComp
            /\ last = Op("init", 0, "", "none", "none", FALSE)
       ELSE /\ state = LoadedState(prior, CreateCanvas)
            /\ tempCanvas = Composite(Decode(prior).patches, CreateCanvas).canvas
            /\ comp = Trace(prior, CreateCanvas)
            /\ last = Op("loadGifDone", 0, prior, "true", "done", FALSE)
  /\ rendered = state
  /\ animationRef = NoId
  /\ frameTimeOffsetRef = 0
  /\ rafQueue = << >>
  /\ inFlight = << >>
  /\ mounted = TRUE
  /\ quiet = FALSE
  /\ startIdx = 0
  /\ latest = ""
  /\ total = 0
  /\ nTicks = 0
  /\ target = CreateCanvas
  /\ job = NoJob

NextCompose ==
  \/ LoadGif("x.gif")
  \/ LoadGifResolve("x.gif")
  \/ LoadGifReject("x.gif")
  \/ Render

SpecCompose == InitCompose /\ [][NextCompose]_vars

(* ------------------------------ properties ---------------------------- *)

\* the step is the operation op (a render leaves `last` as it was)
Did(op) == last'.op = op /\ rendered' = rendered

\* the scheduled callback plays the installed frames at the displayed index
InSync ==
  /\ animationRef \in DOMAIN rafQueue
  /\ rafQueue[animationRef].frames = state.frames
  /\ rafQueue[animationRef].localFrameIndex = state.currentFrameIndex
  /\ state.currentFrameIndex < Len(state.frames)

\* the tick algorithm of the specification: consume the accumulated time
\* frame by frame
RECURSIVE WhileTick(_, _, _)
WhileTick(frames, i, c) ==
  IF c >= frames[i + 1].delay
  THEN WhileTick(frames, (i + 1) % Len(frames), c - frames[i + 1].delay)
  ELSE <<i, c>>

RECURSIVE SumDelays(_)
SumDelays(frames) ==
  IF frames = << >> THEN 0
  ELSE frames[1].delay + SumDelays(Tail(frames))

\* C1: after every playback tick on a non-empty frame store the accumulator
\* satisfies 0 <= carryOverMillis < frames[currentFrameIndex].delay
C1_CarryBelowDelay ==
  (last.op = "tick" /\ last.ret = "true" /\ InSync)
    => /\ 0 <= frameTimeOffsetRef
       /\ frameTimeOffsetRef < state.frames[state.currentFrameIndex + 1].delay

\* C2: one tick with elapsed time e takes (index, carry) to the result of
\* adding e to the carry and then advancing while the carry covers the
\* current frame's delay
C2_TickIsWhileLoop ==
  [][(Did("tick") /\ last'.ret = "true" /\ InSync)
       => <<state'.currentFrameIndex, frameTimeOffsetRef'>> =
            WhileTick(state.frames, state.currentFrameIndex,
                      frameTimeOffsetRef + last'.e)]_vars

\* C3: from frame 0 with carry 0 and delays [100, 200, 50], one tick of
\* 275 ms leaves currentFrameIndex = 2 and the carry at 25
C3_FastForward ==
  (/\ last.op = "tick"
   /\ last.e = 275
   /\ nTicks = 1
   /\ startIdx = 0
   /\ Len(state.frames) = 3
   /\ state.frames[1].delay = 100
   /\ state.frames[2].delay = 200
   /\ state.frames[3].delay = 50)
    => state.currentFrameIndex = 2 /\ frameTimeOffsetRef = 25

\* C4: from frame 0 with carry 0, ticks that sum to k whole passes over the
\* delays end at frame 0 with carry 0, however the time is split into ticks
C4_TimingConservation ==
  (/\ last.op = "tick"
   /\ startIdx = 0
   /\ Len(state.frames) > 0
   /\ total > 0
   /\ total <= MaxTotal
   /\ total % SumDelays(state.frames) = 0)
    => state.currentFrameIndex = 0 /\ frameTimeOffsetRef = 0

\* C5: after pause() or teardown no tick callback is left scheduled, and
\* until the next play(), reset() or load neither currentFrameIndex nor
\* isPlaying changes
C5_NoTickAfterPause ==
  /\ [](quiet => DOMAIN rafQueue = {})
  /\ [][(quiet /\ quiet')
          => /\ state'.currentFrameIndex = state.currentFrameIndex
             /\ state'.isPlaying = state.isPlaying]_vars

\* pause() cancelled a scheduled tick of a playback that had advanced
C5_Witness ==
  /\ quiet
  /\ last.op = "pause"
  /\ last.cancelled
  /\ state.currentFrameIndex > 0

C7_PlayPauseNoOps ==
  [][/\ (Did("play") /\ (Len(state.frames) = 0 \/ state.isPlaying))
          => /\ state' = state
             /\ frameTimeOffsetRef' = frameTimeOffsetRef
             /\ Cardinality(DOMAIN rafQueue') = Cardinality(DOMAIN rafQueue)
     /\ (Did("pause") /\ ~state.isPlaying)
          => /\ state' = state
             /\ frameTimeOffsetRef' = frameTimeOffsetRef
             /\ rafQueue' = rafQueue]_vars

\* C8: whenever the frame store is non-empty,
\* 0 <= currentFrameIndex < frames.length
C8_IndexInRange ==
  Len(state.frames) > 0
    => /\ 0 <= state.currentFrameIndex
       /\ state.currentFrameIndex < Len(state.frames)

\* the step in which the load of last'.url completes
LoadCompletes ==
  /\ last'.op = "loadGifDone"
  /\ last'.url \in DOMAIN inFlight
  /\ last'.url \notin DOMAIN inFlight'

\* C9: a load that fails leaves the frame store (frames, width, height,
\* delays) as it was before the load started
C9_FailedLoadKeepsStore ==
  [][(LoadCompletes /\ last'.ret = "false")
       => Store(state') = inFlight[last'.url]]_vars

\* C10: a load whose patch list is empty fails: loadGif returns false, the
\* error state is set, isLoading is false and no frame store is installed
C10_EmptyPatchListFails ==
  [][(/\ LoadCompletes
      /\ last'.stage # "fetch"
      /\ Decode(last'.url).ok
      /\ Len(Decode(last'.url).patches) = 0)
       => /\ last'.ret = "false"
          /\ state'.error # Null
          /\ ~state'.isLoading
          /\ Store(state') = Store(state)]_vars

\* the load of a GIF without frames came back from the parser as an error
C10_Witness ==
  /\ last.op = "loadGifDone"
  /\ last.url = "empty.gif"
  /\ last.stage = "parse"
  /\ last.ret = "false"
  /\ state.error = ParseError
  /\ ~state.isLoading

\* the last operation was a load that went through, and its frames are the
\* frame store
Loaded ==
  /\ last.op = "loadGifDone"
  /\ last.ret = "true"
  /\ Len(state.frames) > 0

\* patch i lies inside the canvas whose size the first patch declares
Fits(patches, i) ==
  /\ patches[i].dims.left >= 0
  /\ patches[i].dims.top >= 0
  /\ patches[i].dims.left + patches[i].dims.width <= patches[1].dims.width
  /\ patches[i].dims.top + patches[i].dims.height <= patches[1].dims.height

\* C11: a load whose patch list has a patch that does not lie inside the
\* canvas declared by the first patch fails and installs no frame store
C11_InconsistentPatchFails ==
  (/\ last.op = "loadGifDone"
   /\ last.stage # "fetch"
   /\ Decode(last.url).ok
   /\ \E i \in DOMAIN Decode(last.url).patches :
        ~Fits(Decode(last.url).patches, i))
    => /\ last.ret = "false"
       /\ state.error # Null
       /\ state.frames = << >>

\* C12: when patch i-1 has disposal code 3, the canvas onto which patch i is
\* drawn is the canvas as it was before patch i-1 was drawn
C12_RestoreToPrevious ==
  Loaded =>
    \A i \in 2..Len(comp.patches) :
      comp.patches[i - 1].disposalType = 3
        => comp.disposed[i] = comp.disposed[i - 1]

\* the positions of patch i that lie on the canvas, as <<x, y>> in the patch
OnCanvas(patches, i) ==
  { q \in (0..(patches[i].dims.width - 1)) \X (0..(patches[i].dims.height - 1)) :
      InBounds(BlankCanvas(patches[1].dims.width, patches[1].dims.height),
               patches[i].dims.left + q[1], patches[i].dims.top + q[2]) }

\* the colour index of patch i at position q
IndexAt(patches, i, q) ==
  patches[i].pixels[q[2] * patches[i].dims.width + q[1] + 1]

\* the canvas position of position q of patch i
CanvasPos(patches, i, q) ==
  <<patches[i].dims.left + q[1], patches[i].dims.top + q[2]>>

\* C13: a patch pixel whose colour index is the transparent index leaves the
\* pixel of the frame as the canvas had it after disposal; every other patch
\* pixel is opaque in the frame and has the colour of its colour-table entry
C13_TransparencyNonOverwrite ==
  Loaded =>
    \A i \in 1..Len(comp.patches) :
      \A q \in OnCanvas(comp.patches, i) :
        LET idx == IndexAt(comp.patches, i, q)
            pos == CanvasPos(comp.patches, i, q)
            px  == state.frames[i].imageData.data[pos]
        IN  IF idx = comp.patches[i].transparentIndex
            THEN px = comp.disposed[i].data[pos]
            ELSE /\ px[4] = 255
                 /\ idx + 1 \in DOMAIN comp.patches[i].colorTable
                      => px = Opaque(comp.patches[i].colorTable[idx + 1])

\* a transparent pixel of a later patch lies over an opaque pixel of the
\* canvas, and that pixel is in the frame
C13_Witness ==
  /\ Loaded
  /\ last.url = "x.gif"
  /\ \E i \in 2..Len(comp.patches) :
       \E q \in OnCanvas(comp.patches, i) :
         /\ IndexAt(comp.patches, i, q) = comp.patches[i].transparentIndex
         /\ comp.disposed[i].data[CanvasPos(comp.patches, i, q)][4] = 255
         /\ state.frames[i].imageData.data[CanvasPos(comp.patches, i, q)]
              = comp.disposed[i].data[CanvasPos(comp.patches, i, q)]

\* C14: after a load that went through, there are as many frames as stored
\* delays and as patches the decoder delivered
C14_OneFramePerPatch ==
  (last.op = "loadGifDone" /\ last.ret = "true")
    => /\ Len(state.frames) = Len(Decode(last.url).patches)
       /\ Len(state.originalDelays) = Len(Decode(last.url).patches)

\* a load of a list of several patches went through
C14_Witness ==
  /\ last.op = "loadGifDone"
  /\ last.ret = "true"
  /\ last.url = "x.gif"
  /\ Len(decoded) = MaxPatches
  /\ Len(state.frames) = MaxPatches

\* C15: the delay stored with frame i is the delay of patch i when that is
\* not zero, and 100 when the patch has delay 0 or none; every stored delay
\* is positive and originalDelays[i] is the delay of frame i
C15_StoredDelays ==
  Loaded =>
    \A i \in 1..Len(state.frames) :
      /\ i \in DOMAIN comp.patches
      /\ i \in DOMAIN state.originalDelays
      /\ state.frames[i].delay =
           IF comp.patches[i].delay \in {0, Undefined}
           THEN 100 ELSE comp.patches[i].delay
      /\ state.frames[i].delay > 0
      /\ state.originalDelays[i] = state.frames[i].delay

\* a list with a patch of delay 0, one without delay and one with a delay
\* of its own was composited
C15_Witness ==
  /\ Loaded
  /\ last.url = "x.gif"
  /\ \E i, j, k \in 1..Len(comp.patches) :
       /\ comp.patches[i].delay = 0 /\ state.frames[i].delay = 100
       /\ comp.patches[j].delay = Undefined /\ state.frames[j].delay = 100
       /\ comp.patches[k].delay = 50 /\ state.frames[k].delay = 50

\* C16: the frames of a load are those the same patch list gives on any
\* working canvas: a fresh one, one of the GIF's size and the canvas the
\* load has left behind, whatever canvas the load itself found
C16_IdempotentCompositing ==
  Loaded =>
    \A c \in {CreateCanvas, BlankCanvas(state.width, state.height),
              tempCanvas} :
      /\ Composite(comp.patches, c).frames = state.frames
      /\ Composite(comp.patches, c).originalDelays = state.originalDelays

\* the patch list was composited by a load that was started when a store
\* was installed, so on the working canvas an earlier load had left
C16_Witness ==
  /\ Loaded
  /\ last.url = "x.gif"
  /\ Len(decoded) > 1
  /\ rendered.isLoading
  /\ rendered.originalDelays # << >>
  /\ tempCanvas # CreateCanvas

ExpectedCalls(frames, originalDelays) ==
  [i \in 1..Len(frames) |->
     [op |-> "addFrame", image |-> ApplyEffects(frames[i].imageData),
      delay |-> originalDelays[i]]]
  \o << [op |-> "render"] >>

IsPrefix(a, b) == Len(a) <= Len(b) /\ SubSeq(b, 1, Len(a)) = a

\* C19: the calls an export of a store of n frames has made to the encoder
\* are the first calls of addFrame(transform(Frame 0), delay 0), ...,
\* addFrame(transform(Frame n-1), delay n-1), render; they are all of them
\* when the promise is resolved
C19_EncoderCallSequence ==
  (job.status # "none" /\ ~job.failed)
    => /\ IsPrefix(job.calls, ExpectedCalls(job.frames, job.originalDelays))
       /\ job.promise = "resolved"
            => job.calls = ExpectedCalls(job.frames, job.originalDelays)

\* C20: an export in which a frame step or the encoder's render has failed
\* has its promise rejected
C20_FailureRejects ==
  job.failed => job.promise = "rejected"

\* an export is between two of its frames: a timer for the next is pending
BetweenFrames ==
  /\ job.status = "running"
  /\ job.frameCount >= 1
  /\ job.frameCount < Len(job.frames)

\* C21: no step of an export hands more than one frame to the encoder;
\* between two frames a scheduled playback tick can run; and a tick leaves
\* the export, its frames and its delays as they were, so that the calls
\* made stay those of the frames in order
C21_ExportYieldsBetweenFrames ==
  /\ [][Len(job'.calls) <= Len(job.calls) + 1]_vars
  /\ []((BetweenFrames /\ rendered = state /\ animationRef \in DOMAIN rafQueue)
          => ENABLED (\E elapsed \in ElapsedExport :
                        Animate(animationRef, elapsed)))
  /\ [][Did("tick") => job' = job /\ target' = target]_vars
  /\ []((job.status # "none" /\ ~job.failed)
          => IsPrefix(job.calls, ExpectedCalls(job.frames, job.originalDelays)))

\* a tick that advanced the frame ran between two frames of an export
C21_Witness ==
  /\ BetweenFrames
  /\ last.op = "tick"
  /\ last.ret = "true"
  /\ state.currentFrameIndex > 0
  /\ state.isPlaying

\* C22: while an export is in progress the live renderer does not write to
\* the surface the export draws its frames into: a render between two
\* export steps leaves that surface as the export left it
C22_SeparateSurfaces ==
  [][(BetweenFrames /\ Did("renderToCanvas")) => target' = target]_vars

\* C23: playback on a non-empty store has no terminal state: whenever the
\* committed state is Playing on a store with frames, a tick callback is
\* scheduled that will go on to the next frame, the first after the last
C23_NoTerminalState ==
  (mounted /\ rendered = state /\ state.isPlaying /\ Len(state.frames) > 0)
    => animationRef \in DOMAIN rafQueue

\* the step is the completion of a load that went through
LoadSucceeds == LoadCompletes /\ last'.ret = "true"

C25_RecordingStopsItself ==
  /\ [][(Did("capture") /\ recorder.framesRef >= RecMaxFrames)
          => /\ ~recorder'.interval
             /\ recorder'.renders > 0
             /\ ~recorder'.isRecording]_vars
  /\ [](recorder.added <= RecMaxFrames /\ recorder.framesRef <= RecMaxFrames)

\* the canvas position pos lies inside the placement rectangle of patch i
InRect(patches, i, pos) ==
  /\ pos[1] >= patches[i].dims.left
  /\ pos[1] < patches[i].dims.left + patches[i].dims.width
  /\ pos[2] >= patches[i].dims.top
  /\ pos[2] < patches[i].dims.top + patches[i].dims.height

\* C26: when patch i-1 has disposal code 2, the canvas onto which patch i is
\* drawn is transparent inside the rectangle of patch i-1 and is Frame i-1
\* everywhere else
C26_RestoreToBackground ==
  Loaded =>
    \A i \in 2..Len(comp.patches) :
      comp.patches[i - 1].disposalType = 2
        => \A pos \in DOMAIN comp.disposed[i].data :
             comp.disposed[i].data[pos]
               = IF InRect(comp.patches, i - 1, pos) THEN Transparent
                 ELSE state.frames[i - 1].imageData.data[pos]

\* C27: when patch i-1 has disposal code 0 or 1, a pixel outside the
\* rectangle of patch i, or under a transparent pixel of patch i, is the
\* same in Frame i and Frame i-1
C27_LeaveAsIs ==
  Loaded =>
    \A i \in 2..Len(comp.patches) :
      comp.patches[i - 1].disposalType \in {0, 1}
        => \A pos \in DOMAIN state.frames[i].imageData.data :
             (\/ ~InRect(comp.patches, i, pos)
              \/ IndexAt(comp.patches, i,
                         <<pos[1] - comp.patches[i].dims.left,
                           pos[2] - comp.patches[i].dims.top>>)
                   = comp.patches[i].transparentIndex)
               => state.frames[i].imageData.data[pos]
                    = state.frames[i - 1].imageData.data[pos]

\* C28: at most one tick callback is scheduled at any time
C28_OneTickScheduled == Cardinality(DOMAIN rafQueue) <= 1

\* play() went through a second time before the render that shows
\* isPlaying, while the callback of the first was scheduled
C28_Witness ==
  /\ last.op = "play"
  /\ last.ret = "true"
  /\ last.cancelled
  /\ ~rendered.isPlaying
  /\ state.isPlaying
  /\ Cardinality(DOMAIN rafQueue) = 1

\* a load other than the one requested last completes after the one
\* requested last has completed
SupersededCompletes ==
  /\ last'.op = "loadGifDone"
  /\ rendered' = rendered
  /\ latest # ""
  /\ last'.url # latest
  /\ latest \notin DOMAIN inFlight

\* C29: a load that was superseded by a later loadGif call, and that
\* completes after that later load has completed, leaves the frame store
\* as the later load left it
C29_LatestLoadWins ==
  [][SupersededCompletes => Store(state') = Store(state)]_vars

\* C30: under fair scheduling of its callbacks, an export whose promise is
\* pending is followed by a state in which the promise is resolved or
\* rejected
C30_ExportSettles ==
  (job.promise = "pending") ~> (job.promise \in {"resolved", "rejected"})

====
